---- MODULE Spec2Model ----
(***************************************************************************)
(* Model of api/parsedemo.go: the HTTP handler Parsedemo fetches a demo,   *)
(* parse() registers one callback per event kind on the demo parser and    *)
(* lets ParseToEnd dispatch the demo's events to them; the callbacks       *)
(* project the events into the GameEvents aggregate, which is marshalled   *)
(* and written once parsing has succeeded.                                 *)
(*                                                                         *)
(* The demo parser is an external collaborator: the events it dispatches,  *)
(* the frame it is at and the game state it reports are nondeterministic   *)
(* inputs.  Coordinates are integer-valued float64s; NaN and infinities,   *)
(* the only values json.MarshalIndent rejects, are outside the inputs.     *)
(***************************************************************************)
EXTENDS Integers, Sequences, FiniteSets, TLC

VARIABLES
    pc,            \* control position of Parsedemo / parse
    currentRound,  \* parse: currentRound
    isWarmup,      \* parse: isWarmup
    Rounds,        \* gameEvents.Rounds
    Grenades,      \* gameEvents.Grenades
    BombEvents,    \* gameEvents.BombEvents
    RoundEvents,   \* gameEvents.RoundEvents
    frame,         \* p.CurrentFrame()
    e,             \* the event most recently dispatched to a callback
    roundStarts,   \* number of RoundStart events dispatched so far
    events,        \* Parsedemo: events, the pointer parse() returned
    err,           \* Parsedemo: err, the error parse() returned
    response       \* what has been written to the http.ResponseWriter

vars == <<pc, currentRound, isWarmup, Rounds, Grenades, BombEvents, RoundEvents,
          frame, e, roundStarts, events, err, response>>

gameEventsVars == <<Rounds, Grenades, BombEvents, RoundEvents>>

----------------------------------------------------------------------------
(* Bounds of the model *)

MaxRecords == 2
MaxRound == 2
MaxFrame == 1

----------------------------------------------------------------------------
(* Values *)

\* float32(x) of an integer-valued float64 x with |x| < 2^25: exact up to
\* 2^24, above it rounded to the nearest even integer, ties to even mantissa.
Abs(x) == IF x < 0 THEN -x ELSE x

Float32(x) ==
    LET a == Abs(x)
        q == a \div 2
        r == IF a <= 16777216 \/ a % 2 = 0 THEN a
             ELSE IF q % 2 = 0 THEN 2 * q ELSE 2 * (q + 1)
    IN  IF x < 0 THEN -r ELSE r

\* The zero value of Position (var killerPos, victimPos Position).
ZeroPosition == [X |-> 0, Y |-> 0, Z |-> 0]

\* Position{X: float32(v.X), Y: float32(v.Y), Z: float32(v.Z)}
ToPosition(v) == [X |-> Float32(v.X), Y |-> Float32(v.Y), Z |-> Float32(v.Z)]

\* A *common.Player that is nil.
NilPlayer == [nil |-> TRUE]

PlayerA == [nil |-> FALSE, Name |-> "A", Position |-> [X |-> 16777217, Y |-> -64, Z |-> 3]]

PlayerB == [nil |-> FALSE, Name |-> "B", Position |-> [X |-> -16777219, Y |-> 0, Z |-> 128]]

\* A *common.Equipment that is nil.
NilWeapon == [nil |-> TRUE]

\* Equipment.String() / EquipmentType.String(): the display name of the type.
EquipmentString(t) ==
    CASE t = "EqAK47" -> "AK-47"
      [] t = "EqAWP" -> "AWP"
      [] t = "EqHE" -> "HE Grenade"
      [] OTHER -> "UNKNOWN"

\* string(e.Site): the one-character string of the Bombsite byte.
SiteString(b) ==
    CASE b = 65 -> "A"
      [] b = 66 -> "B"
      [] OTHER -> "\\x00"

----------------------------------------------------------------------------
(* Events the parser can dispatch *)

KillInputs ==
    { [kind |-> "Kill", Killer |-> PlayerA, Victim |-> PlayerB, Assister |-> NilPlayer,
       Weapon |-> [nil |-> FALSE, Type |-> "EqAK47"], IsHeadshot |-> TRUE,
       PenetratedObjects |-> 2],
      [kind |-> "Kill", Killer |-> NilPlayer, Victim |-> NilPlayer, Assister |-> PlayerA,
       Weapon |-> NilWeapon, IsHeadshot |-> FALSE, PenetratedObjects |-> 0] }

GrenadeInputs ==
    { [kind |-> "Grenade", Thrower |-> p, GrenadeType |-> "EqHE",
       Position |-> [X |-> 16777217, Y |-> 7, Z |-> 0]] : p \in {PlayerA, NilPlayer} }

BombPlantedInputs ==
    { [kind |-> "BombPlanted", Player |-> PlayerA, Site |-> 65],
      [kind |-> "BombPlanted", Player |-> PlayerB, Site |-> 66],
      [kind |-> "BombPlanted", Player |-> NilPlayer, Site |-> 0] }

BombDefusedInputs ==
    { [kind |-> "BombDefused", Player |-> p] : p \in {PlayerB, NilPlayer} }

BombExplodeInputs ==
    { [kind |-> "BombExplode", Player |-> NilPlayer] }

\* A RoundEnd event together with the team scores <<ScoreCT, ScoreT>> that
\* p.GameState() reports when it is dispatched.
RoundEndInputs ==
    { <<[kind |-> "RoundEnd", Reason |-> "RoundEndReasonTerroristsWin", Winner |-> 2], <<0, 1>>>>,
      <<[kind |-> "RoundEnd", Reason |-> "RoundEndReasonCTWin", Winner |-> 3], <<1, 0>>>>,
      <<[kind |-> "RoundEnd", Reason |-> "RoundEndReasonBombDefused", Winner |-> 3], <<2, 1>>>>,
      <<[kind |-> "RoundEnd", Reason |-> "RoundEndReasonTargetBombed", Winner |-> 2], <<0, 0>>>>,
      <<[kind |-> "RoundEnd", Reason |-> "RoundEndReasonTargetBombed", Winner |-> 1], <<1, 1>>>> }

NoEvent == [kind |-> "none"]

----------------------------------------------------------------------------
(* parse(): the running context and the callbacks *)

\* The warmup flag starting clear.
InitWarmup_Clear == FALSE

\* isWarmup := true
InitWarmup == TRUE

\* An assignment of the first round number in place of the increment.
NextRound_Assign(r) == 1

\* currentRound++
NextRound(r) == r + 1

\* The record put in front of the slice.
GoAppend_Prepend(s, x) == <<x>> \o s

\* Go's append(s, x) on a slice.
GoAppend(s, x) == Append(s, x)

\* m[k] of a Go map of slices: the nil slice when k is not a key.
MapGet(m, k) == IF k \in DOMAIN m THEN m[k] ELSE << >>

\* m[k] = v
MapSet(m, k, v) == [j \in DOMAIN m \cup {k} |-> IF j = k THEN v ELSE m[j]]

TotalRecords ==
    LET RECURSIVE Sum(_)
        Sum(S) == IF S = {} THEN 0
                  ELSE LET k == CHOOSE j \in S : TRUE
                       IN  Len(Rounds[k]) + Sum(S \ {k})
    IN  Sum(DOMAIN Rounds) + Len(Grenades) + Len(BombEvents) + Len(RoundEvents)

\* ParseToEnd is running and may dispatch a further event.
Dispatching == pc = "ParseToEnd" /\ TotalRecords < MaxRecords

\* A callback dereferenced a nil pointer: the panic leaves ParseToEnd, parse
\* and Parsedemo, none of which recovers it.
Panic(ev) ==
    /\ pc' = "panic"
    /\ e' = ev
    /\ UNCHANGED <<currentRound, isWarmup, gameEventsVars, frame, roundStarts,
                   events, err, response>>

\* func(e events.RoundStart)
RoundStartHandler(ev) ==
    /\ pc = "ParseToEnd"
    /\ currentRound < MaxRound
    /\ roundStarts < MaxRound
    /\ currentRound' = NextRound(currentRound)
    /\ isWarmup' = ev.IsWarmupPeriod
    /\ roundStarts' = roundStarts + 1
    /\ e' = ev
    /\ UNCHANGED <<pc, gameEventsVars, frame, events, err, response>>

\* The Kill callback without its warmup check.
SkipKill_Never == FALSE

\* if isWarmup { return } of the Kill callback
SkipKill == isWarmup

\* The key in a zero-based round numbering.
RoundKey_ZeroBased == currentRound - 1

\* the key of gameEvents.Rounds the Kill callback appends under
RoundKey == currentRound

\* The KillEvent literal the Kill callback builds.
KillRecord(ev) ==
    [Killer     |-> IF ~ev.Killer.nil THEN ev.Killer.Name ELSE "",
     Assister   |-> IF ~ev.Assister.nil THEN ev.Assister.Name ELSE "",
     Victim     |-> IF ~ev.Victim.nil THEN ev.Victim.Name ELSE "",
     Weapon     |-> IF ~ev.Weapon.nil THEN EquipmentString(ev.Weapon.Type) ELSE "",
     Headshot   |-> ev.IsHeadshot,
     Penetrated |-> ev.PenetratedObjects > 0,
     Tick       |-> frame,
     KillerPos  |-> IF ~ev.Killer.nil THEN ToPosition(ev.Killer.Position) ELSE ZeroPosition,
     VictimPos  |-> IF ~ev.Victim.nil THEN ToPosition(ev.Victim.Position) ELSE ZeroPosition]

\* func(e events.Kill)
KillHandler(ev) ==
    /\ Dispatching
    /\ e' = ev
    /\ IF SkipKill
       THEN UNCHANGED Rounds
       ELSE Rounds' = MapSet(Rounds, RoundKey,
                             GoAppend(MapGet(Rounds, RoundKey), KillRecord(ev)))
    /\ UNCHANGED <<pc, currentRound, isWarmup, Grenades, BombEvents, RoundEvents,
                   frame, roundStarts, events, err, response>>

\* func(e events.GrenadeEventIf)
GrenadeHandler(ev) ==
    /\ Dispatching
    /\ IF isWarmup
       THEN /\ e' = ev
            /\ UNCHANGED <<pc, currentRound, isWarmup, gameEventsVars, frame,
                           roundStarts, events, err, response>>
       ELSE IF ev.Thrower.nil
       THEN Panic(ev)
       ELSE /\ e' = ev
            /\ Grenades' = GoAppend(Grenades,
                   [Thrower     |-> ev.Thrower.Name,
                    GrenadeType |-> EquipmentString(ev.GrenadeType),
                    Position    |-> ToPosition(ev.Position),
                    Tick        |-> frame])
            /\ UNCHANGED <<pc, currentRound, isWarmup, Rounds, BombEvents,
                           RoundEvents, frame, roundStarts, events, err, response>>

\* The BombPlanted callback without its warmup check.
SkipBombPlanted_Never == FALSE

\* if isWarmup { return } of the BombPlanted callback
SkipBombPlanted == isWarmup

\* func(e events.BombPlanted)
BombPlantedHandler(ev) ==
    /\ Dispatching
    /\ IF SkipBombPlanted
       THEN /\ e' = ev
            /\ UNCHANGED <<pc, currentRound, isWarmup, gameEventsVars, frame,
                           roundStarts, events, err, response>>
       ELSE IF ev.Player.nil
       THEN Panic(ev)
       ELSE /\ e' = ev
            /\ BombEvents' = GoAppend(BombEvents,
                   [Player    |-> ev.Player.Name,
                    Site      |-> SiteString(ev.Site),
                    EventType |-> "planted",
                    Position  |-> ZeroPosition,
                    Tick      |-> frame])
            /\ UNCHANGED <<pc, currentRound, isWarmup, Rounds, Grenades,
                           RoundEvents, frame, roundStarts, events, err, response>>

\* func(e events.BombDefused)
BombDefusedHandler(ev) ==
    /\ Dispatching
    /\ IF isWarmup
       THEN /\ e' = ev
            /\ UNCHANGED <<pc, currentRound, isWarmup, gameEventsVars, frame,
                           roundStarts, events, err, response>>
       ELSE IF ev.Player.nil
       THEN Panic(ev)
       ELSE /\ e' = ev
            /\ BombEvents' = GoAppend(BombEvents,
                   [Player    |-> ev.Player.Name,
                    Site      |-> "",
                    EventType |-> "defused",
                    Position  |-> ZeroPosition,
                    Tick      |-> frame])
            /\ UNCHANGED <<pc, currentRound, isWarmup, Rounds, Grenades,
                           RoundEvents, frame, roundStarts, events, err, response>>

\* func(e events.BombExplode)
BombExplodeHandler(ev) ==
    /\ Dispatching
    /\ e' = ev
    /\ IF isWarmup
       THEN UNCHANGED BombEvents
       ELSE BombEvents' = GoAppend(BombEvents,
                   [Player    |-> "",
                    Site      |-> "",
                    EventType |-> "exploded",
                    Position  |-> ZeroPosition,
                    Tick      |-> frame])
    /\ UNCHANGED <<pc, currentRound, isWarmup, Rounds, Grenades, RoundEvents,
                   frame, roundStarts, events, err, response>>

\* The switch without its BombDefused case.
RoundEndReason_NoDefuse(code) ==
    CASE code = "RoundEndReasonTerroristsWin" -> "terrorists_win"
      [] code = "RoundEndReasonCTWin" -> "ct_win"
      [] OTHER -> "unknown"

\* switch e.Reason of the RoundEnd callback
RoundEndReason(code) ==
    CASE code = "RoundEndReasonTerroristsWin" -> "terrorists_win"
      [] code = "RoundEndReasonCTWin" -> "ct_win"
      [] code = "RoundEndReasonBombDefused" -> "bomb_defused"
      [] OTHER -> "unknown"

\* The two sides' codes exchanged.
RoundEndWinner_Swapped(code) ==
    IF code = 3 THEN "Terrorists"
    ELSE IF code = 2 THEN "Counter-Terrorists"
    ELSE "none"

\* if e.Winner == 2 ... else if e.Winner == 3 ... of the RoundEnd callback
RoundEndWinner(code) ==
    IF code = 2 THEN "Terrorists"
    ELSE IF code = 3 THEN "Counter-Terrorists"
    ELSE "none"

\* func(e events.RoundEnd); sc is the pair of scores the game state reports
RoundEndHandler(ev, sc) ==
    /\ Dispatching
    /\ e' = ev
    /\ RoundEvents' = GoAppend(RoundEvents,
           [EventType |-> "round_end",
            Reason    |-> RoundEndReason(ev.Reason),
            Winner    |-> RoundEndWinner(ev.Winner),
            ScoreCT   |-> sc[1],
            ScoreT    |-> sc[2],
            Tick      |-> frame])
    /\ UNCHANGED <<pc, currentRound, isWarmup, Rounds, Grenades, BombEvents,
                   frame, roundStarts, events, err, response>>

\* The parser moves on to the next frame of the demo.
ParseFrame ==
    /\ pc = "ParseToEnd"
    /\ frame < MaxFrame
    /\ frame' = frame + 1
    /\ UNCHANGED <<pc, currentRound, isWarmup, gameEventsVars, e, roundStarts,
                   events, err, response>>

\* The aggregate returned along with the error.
ParseReturn_Partial(perr) == [events |-> "gameEvents", err |-> perr]

\* err := p.ParseToEnd(); if err != nil { return nil, err }; return gameEvents, nil
ParseReturn(perr) ==
    IF perr THEN [events |-> "nil", err |-> TRUE]
    ELSE [events |-> "gameEvents", err |-> FALSE]

----------------------------------------------------------------------------
(* json.MarshalIndent of the aggregate *)

JNull == [json |-> "null"]

\* A slice, given the sequence of its marshalled elements: null when the
\* slice is nil, else the array.
MarshalSlice(items) ==
    IF items = << >> THEN JNull ELSE [json |-> "array", items |-> items]

MarshalPosition(p) == [x |-> p.X, y |-> p.Y, z |-> p.Z]

\* Fields tagged omitempty are left out when they are the empty string.
OmitEmpty(name, v) == IF v = "" THEN << >> ELSE (name :> v)

MarshalKill(k) ==
    [killer |-> k.Killer, victim |-> k.Victim, weapon |-> k.Weapon,
     headshot |-> k.Headshot, penetrated |-> k.Penetrated, tick |-> k.Tick,
     killer_pos |-> MarshalPosition(k.KillerPos),
     victim_pos |-> MarshalPosition(k.VictimPos)] @@ OmitEmpty("assister", k.Assister)

MarshalGrenade(g) ==
    [thrower |-> g.Thrower, grenade_type |-> g.GrenadeType,
     position |-> MarshalPosition(g.Position), tick |-> g.Tick]

MarshalBomb(b) ==
    [player |-> b.Player, site |-> b.Site, event_type |-> b.EventType,
     position |-> MarshalPosition(b.Position), tick |-> b.Tick]

MarshalRound(r) ==
    [event_type |-> r.EventType, score_ct |-> r.ScoreCT, score_t |-> r.ScoreT,
     tick |-> r.Tick] @@ OmitEmpty("reason", r.Reason) @@ OmitEmpty("winner", r.Winner)

\* The document of *GameEvents: null for a nil pointer.  Kills and PlayerHurts
\* are never appended to and stay nil; the keys of rounds become strings.
MarshalIndent(ptr) ==
    IF ptr = "nil" THEN JNull
    ELSE [json         |-> "object",
          kills        |-> JNull,
          grenades     |-> MarshalSlice([i \in 1 .. Len(Grenades) |-> MarshalGrenade(Grenades[i])]),
          player_hurts |-> JNull,
          bomb_events  |-> MarshalSlice([i \in 1 .. Len(BombEvents) |-> MarshalBomb(BombEvents[i])]),
          round_events |-> MarshalSlice([i \in 1 .. Len(RoundEvents) |-> MarshalRound(RoundEvents[i])]),
          rounds       |-> { <<ToString(k),
                               MarshalSlice([i \in 1 .. Len(Rounds[k]) |-> MarshalKill(Rounds[k][i])])>> :
                               k \in DOMAIN Rounds }]

----------------------------------------------------------------------------
(* Parsedemo *)

\* http.Get and the status check: log.Fatalf on an error or a status other
\* than http.StatusOK.
FetchDemo(getErr, status) ==
    /\ pc = "Get"
    /\ pc' = IF getErr \/ status # 200 THEN "fatal" ELSE "parse"
    /\ UNCHANGED <<currentRound, isWarmup, gameEventsVars, frame, e, roundStarts,
                   events, err, response>>

\* parse(): the parser, the empty aggregate, the context and the callbacks.
ParseBegin ==
    /\ pc = "parse"
    /\ pc' = "ParseToEnd"
    /\ Rounds' = << >>
    /\ Grenades' = << >>
    /\ BombEvents' = << >>
    /\ RoundEvents' = << >>
    /\ currentRound' = 0
    /\ isWarmup' = InitWarmup
    /\ UNCHANGED <<frame, e, roundStarts, events, err, response>>

\* ParseToEnd returns, with or without an error, parse() returns to Parsedemo,
\* which calls log.Fatalf on an error and else marshals and writes the document.
ParseToEndReturns(perr) ==
    /\ pc = "ParseToEnd"
    /\ events' = ParseReturn(perr).events
    /\ err' = ParseReturn(perr).err
    /\ IF err'
       THEN pc' = "fatal" /\ UNCHANGED response
       ELSE pc' = "done" /\ response' = Append(response, MarshalIndent(events'))
    /\ UNCHANGED <<currentRound, isWarmup, gameEventsVars, frame, e, roundStarts>>

----------------------------------------------------------------------------

Init ==
    /\ pc = "Get"
    /\ currentRound = 0
    /\ isWarmup = InitWarmup
    /\ Rounds = << >>
    /\ Grenades = << >>
    /\ BombEvents = << >>
    /\ RoundEvents = << >>
    /\ frame = 0
    /\ e = NoEvent
    /\ roundStarts = 0
    /\ events = "nil"
    /\ err = FALSE
    /\ response = << >>

Fetch == \E getErr \in BOOLEAN : \E status \in {200, 404} : FetchDemo(getErr, status)

RoundStart == \E w \in BOOLEAN : RoundStartHandler([kind |-> "RoundStart", IsWarmupPeriod |-> w])

Kill == \E ev \in KillInputs : KillHandler(ev)

Grenade == \E ev \in GrenadeInputs : GrenadeHandler(ev)

BombPlanted == \E ev \in BombPlantedInputs : BombPlantedHandler(ev)

BombDefused == \E ev \in BombDefusedInputs : BombDefusedHandler(ev)

BombExplode == \E ev \in BombExplodeInputs : BombExplodeHandler(ev)

RoundEnd == \E in \in RoundEndInputs : RoundEndHandler(in[1], in[2])

ParseEnd == \E perr \in BOOLEAN : ParseToEndReturns(perr)

Next ==
    \/ Fetch
    \/ ParseBegin
    \/ RoundStart
    \/ Kill
    \/ Grenade
    \/ BombPlanted
    \/ BombDefused
    \/ BombExplode
    \/ RoundEnd
    \/ ParseFrame
    \/ ParseEnd

Spec == Init /\ [][Next]_vars

----------------------------------------------------------------------------
(* Properties *)

Last(s) == s[Len(s)]

IsPrefix(s, t) == Len(s) <= Len(t) /\ \A i \in 1 .. Len(s) : s[i] = t[i]

\* C1: a Kill event handled while the warmup flag is set leaves the Rounds map
\* exactly as it was.
C1_WarmupKillAddsNothing ==
    [][\A ev \in KillInputs : (isWarmup /\ KillHandler(ev)) => Rounds' = Rounds]_vars

\* A Kill event was handled in a warmup round, after a RoundStart.
C1_Witness ==
    /\ pc = "ParseToEnd"
    /\ e.kind = "Kill"
    /\ isWarmup
    /\ currentRound = 1
    /\ Rounds = << >>

\* C2: each RoundStart event raises the round counter by exactly 1, no other
\* step changes it, and it equals the number of RoundStart events seen so far.
C2_RoundCounter ==
    [][/\ IF \E w \in BOOLEAN : RoundStartHandler([kind |-> "RoundStart", IsWarmupPeriod |-> w])
          THEN currentRound' = currentRound + 1
          ELSE currentRound' = currentRound
       /\ currentRound' = roundStarts']_vars

\* Two RoundStart events and, after them, an event of another kind were handled.
C2_Witness ==
    /\ currentRound = 2
    /\ roundStarts = 2
    /\ e.kind = "RoundEnd"
    /\ RoundEvents # << >>

\* C3: a Kill event that is not filtered is appended to the end of Rounds[r],
\* r the round counter when it fires, and the sequences of all other rounds
\* stay as they were.
C3_KillUnderCurrentRound ==
    [][\A ev \in KillInputs : (~isWarmup /\ KillHandler(ev)) =>
          /\ DOMAIN Rounds' = DOMAIN Rounds \cup {currentRound}
          /\ Rounds'[currentRound] =
                 Append(IF currentRound \in DOMAIN Rounds THEN Rounds[currentRound] ELSE << >>,
                        KillRecord(ev))
          /\ \A k \in DOMAIN Rounds \ {currentRound} : Rounds'[k] = Rounds[k]]_vars

\* The first round was a warmup round and a kill was recorded in the second.
C3_Witness ==
    /\ e.kind = "Kill"
    /\ ~isWarmup
    /\ currentRound = 2
    /\ DOMAIN Rounds = {2}
    /\ Len(Rounds[2]) = 2

\* C4: when ParseToEnd reports an error, parse() returns nil with the error and
\* nothing is written; what is written is the document of the whole aggregate
\* of a parse that succeeded.
C4_NoPartialDocument ==
    /\ err => events = "nil" /\ response = << >> /\ pc = "fatal"
    /\ response # << >> =>
          /\ ~err
          /\ pc = "done"
          /\ events = "gameEvents"
          /\ response = << MarshalIndent("gameEvents") >>

\* ParseToEnd failed after events had been projected.
C4_Witness ==
    /\ pc = "fatal"
    /\ err
    /\ RoundEvents # << >>
    /\ Rounds # << >>

C6_AppendOnly ==
    [][/\ DOMAIN Rounds \subseteq DOMAIN Rounds'
       /\ \A k \in DOMAIN Rounds :
             IsPrefix(Rounds[k], Rounds'[k]) /\ Len(Rounds'[k]) <= Len(Rounds[k]) + 1
       /\ \A k \in DOMAIN Rounds' \ DOMAIN Rounds : Len(Rounds'[k]) = 1
       /\ IsPrefix(Grenades, Grenades') /\ Len(Grenades') <= Len(Grenades) + 1
       /\ IsPrefix(BombEvents, BombEvents') /\ Len(BombEvents') <= Len(BombEvents) + 1
       /\ IsPrefix(RoundEvents, RoundEvents') /\ Len(RoundEvents') <= Len(RoundEvents) + 1]_vars

\* Two different kills were recorded in one round, the later one last.
C6_Witness ==
    /\ e.kind = "Kill"
    /\ 1 \in DOMAIN Rounds
    /\ Len(Rounds[1]) = 2
    /\ Rounds[1][1] # Rounds[1][2]
    /\ Rounds[1][2].Killer = (IF e.Killer.nil THEN "" ELSE e.Killer.Name)

\* C7: the reason of the RoundEvent emitted for a RoundEnd event is fixed by
\* the event's reason code: terrorists_win, ct_win, bomb_defused for the three
\* codes the switch names and unknown for every other code.
C7_ReasonLabel ==
    e.kind = "RoundEnd" =>
        /\ RoundEvents # << >>
        /\ Last(RoundEvents).Reason \in {"terrorists_win", "ct_win", "bomb_defused", "unknown"}
        /\ e.Reason = "RoundEndReasonTerroristsWin" <=> Last(RoundEvents).Reason = "terrorists_win"
        /\ e.Reason = "RoundEndReasonCTWin" <=> Last(RoundEvents).Reason = "ct_win"
        /\ e.Reason = "RoundEndReasonBombDefused" <=> Last(RoundEvents).Reason = "bomb_defused"

\* A RoundEnd event with a reason code the switch does not name was handled.
C7_Witness ==
    /\ e.kind = "RoundEnd"
    /\ e.Reason = "RoundEndReasonTargetBombed"
    /\ Last(RoundEvents).Reason = "unknown"

\* C8: the winner of the RoundEvent emitted for a RoundEnd event is Terrorists
\* for code 2, Counter-Terrorists for code 3 and none for every other code.
C8_WinnerLabel ==
    e.kind = "RoundEnd" =>
        /\ RoundEvents # << >>
        /\ e.Winner = 2 => Last(RoundEvents).Winner = "Terrorists"
        /\ e.Winner = 3 => Last(RoundEvents).Winner = "Counter-Terrorists"
        /\ e.Winner \notin {2, 3} => Last(RoundEvents).Winner = "none"

\* A RoundEnd event won by neither side was handled.
C8_Witness ==
    /\ e.kind = "RoundEnd"
    /\ e.Winner = 1
    /\ Last(RoundEvents).Winner = "none"

\* C9 as stated: no callback fails, whichever optional entity of its event is
\* absent.
C9_ProjectorCannotFail == pc # "panic"

\* C10: every key of Rounds lies in 1 .. currentRound, and the sequence of a
\* round the counter has moved past never changes again.
C10_RoundKeys ==
    [][/\ \A k \in DOMAIN Rounds' : 1 <= k /\ k <= currentRound'
       /\ \A k \in DOMAIN Rounds :
             k < currentRound => k \in DOMAIN Rounds' /\ Rounds'[k] = Rounds[k]]_vars

\* Kills were recorded in round 1 and then, past it, in round 2.
C10_Witness ==
    /\ currentRound = 2
    /\ DOMAIN Rounds = {1, 2}
    /\ e.kind = "Kill"

====
